---- MODULE Spec2Model ----
(***************************************************************************)
(* Model of src-tauri/src/lib.rs: the sidecar supervisor (start_server,    *)
(* stop_server, server_status, the RunEvent::Exit shutdown) and the        *)
(* streaming bridge (api_stream and its background task).                  *)
(*                                                                         *)
(* The commands are async functions run by a multi-threaded runtime and    *)
(* the Exit handler runs on the event-loop thread, so the steps of one     *)
(* invocation interleave with the steps of the others everywhere except    *)
(* inside a section that holds the ServerState mutex.                      *)
(***************************************************************************)
EXTENDS Integers, Sequences, FiniteSets, TLC

(* ------------------------------ bounds -------------------------------- *)

\* sidecar processes the model lets the supervisor spawn
MaxSpawns == 2

\* chunks the model lets one response body deliver
MaxChunks == 2

\* output lines the model lets the workers write in total
MaxLines == 2

Workers == 1..MaxSpawns

\* the callers of start_server: the auto-start task of setup (lines 336-345)
\* and the command invoked from the UI (line 329), each any number of times
Starters == {"setup", "ui"}

\* the caller of stop_server: the command invoked from the UI
Stoppers == {"ui"}

\* the two concurrent streaming requests the bridge is modelled with
StreamTasks == {1, 2}

(* ------------------------------ state --------------------------------- *)

VARIABLES
    serverState,   \* ServerState.0: None, or the worker whose CommandChild it holds
    lock,          \* holder of the ServerState mutex across steps: "free" or "exit"
    spc,           \* start_server: position of each caller
    child,         \* start_server: the local `child` of each caller (None once moved)
    rx,            \* start_server: the local `rx` of each caller (None once moved)
    sres,          \* start_server: the value last returned to each caller
    stpc,          \* stop_server: position of each caller
    stres,         \* stop_server: the value last returned to each caller
    statusObs,     \* server_status: the value last returned, with what held then
    exitpc,        \* RunEvent::Exit arm: position
    exitChild,     \* RunEvent::Exit arm: the local `child` taken from the slot
    nSpawned,      \* sidecar processes spawned so far
    alive,         \* the spawned processes that have not terminated
    writes,        \* per worker: calls of child.write(b"SHUTDOWN\n")
    delivered,     \* per worker: SHUTDOWN lines that reached its stdin
    kills,         \* per worker: calls of child.kill()
    monitor,       \* per worker: its monitor task, "none", "running" or "done"
    overwritten,   \* workers whose CommandChild was dropped by a later store
    slotOp,        \* the last change of the slot: "init", "store" or "take"
    rxq,           \* per worker: the CommandEvents sent to rx and not yet received
    printed,       \* per worker: the output lines it has written, in order
    isQuitting,    \* AppLifecycleState.is_quitting
    quitSeen,      \* an ExitRequested event has occurred in this session
    platform,      \* the target_os of the build: "macos" or "other"
    windows,       \* per window label: "visible", "hidden" or "closed"
    closeObs,      \* the last CloseRequested: its window and what was done
    proxy,         \* the last unary proxy request: its inputs and its result
    streams,       \* api_stream: each request and its background task
    emitted        \* every app.emit so far, in order

supVars == <<serverState, lock, spc, child, rx, sres, stpc, stres, statusObs,
             exitpc, exitChild, nSpawned, alive, writes, delivered, kills,
             monitor, overwritten, slotOp, rxq, printed>>

lifeVars == <<isQuitting, quitSeen, platform, windows, closeObs>>

vars == <<serverState, lock, spc, child, rx, sres, stpc, stres, statusObs,
          exitpc, exitChild, nSpawned, alive, writes, delivered, kills,
          monitor, overwritten, slotOp, rxq, printed, isQuitting, quitSeen,
          platform, windows, closeObs, proxy, streams, emitted>>

\* Option::None of the slot and of the moved-out locals
None == 0

\* a command that has not returned yet
NoResult == [ok |-> TRUE, msg |-> "-"]

Ok(m)  == [ok |-> TRUE, msg |-> m]
Err(m) == [ok |-> FALSE, msg |-> m]

\* one app.emit(channel, payload) made by task `by`; payload keys that are
\* absent from the JSON object are <<>> and ""
Event(by, ch, ty, d, m) ==
    [by |-> by, channel |-> ch, type |-> ty, data |-> d, message |-> m]

\* the events published by one task, in order
RECURSIVE ByTask(_, _)
ByTask(log, t) ==
    IF log = <<>> THEN <<>>
    ELSE IF Head(log).by = t
         THEN <<Head(log)>> \o ByTask(Tail(log), t)
         ELSE ByTask(Tail(log), t)

\* the events published on one channel, in order
RECURSIVE OnChannel(_, _)
OnChannel(log, ch) ==
    IF log = <<>> THEN <<>>
    ELSE IF Head(log).channel = ch
         THEN <<Head(log)>> \o OnChannel(Tail(log), ch)
         ELSE OnChannel(Tail(log), ch)

\* lines 217, 270 and 275: String::from_utf8_lossy, on byte strings of ASCII bytes and
\* bytes that can occur in no UTF-8 sequence: each of the latter becomes U+FFFD
Utf8Lossy(bytes) ==
    [i \in 1..Len(bytes) |-> IF bytes[i] < 128 THEN bytes[i] ELSE 65533]

\* server-terminated has been published for worker w
TermPublished(w) ==
    \E i \in 1..Len(emitted) :
        emitted[i].channel = "server-terminated" /\ emitted[i].data = <<w>>

(* --------------------------- start_server ----------------------------- *)

\* mutant: the check of line 246 never sees a held handle
AlreadyRunningNever(slot) == FALSE

\* line 246: state.0.lock().unwrap().is_some()
AlreadyRunning(slot) == slot # None

\* lines 246-248: lock, is_some(), unlock; return early when a handle is held
start_server_check(p) ==
    /\ spc[p] = "idle"
    /\ lock = "free"
    /\ IF AlreadyRunning(serverState)
       THEN /\ spc' = spc
            /\ sres' = [sres EXCEPT ![p] = Ok("Server already running")]
       ELSE /\ spc' = [spc EXCEPT ![p] = "spawn"]
            /\ sres' = [sres EXCEPT ![p] = NoResult]
    /\ UNCHANGED <<serverState, lock, child, rx, stpc, stres, statusObs, exitpc,
                   exitChild, nSpawned, alive, writes, delivered, kills, monitor,
                   overwritten, slotOp, streams, emitted,
                   rxq, printed, lifeVars, proxy>>

\* what lines 250-258 can come to: sidecar() fails, spawn() fails, or a
\* process is spawned
SpawnOutcomes == {"no_sidecar", "no_spawn", "spawned"}

\* mutant: the failure is swallowed and reported as a start
SpawnErrorSwallowed(outcome) == Ok("Server started successfully")

\* lines 253 and 258: the error `?` returns
SpawnError(outcome) ==
    IF outcome = "no_sidecar"
    THEN Err("Failed to create sidecar command")
    ELSE Err("Failed to spawn sidecar")

\* lines 250-258: build the sidecar command and spawn it; neither step
\* touches the slot
start_server_spawn(p) ==
    /\ spc[p] = "spawn"
    /\ \E outcome \in SpawnOutcomes :
          IF outcome = "spawned" /\ nSpawned < MaxSpawns
          THEN /\ nSpawned' = nSpawned + 1
               /\ alive' = alive \cup {nSpawned + 1}
               /\ child' = [child EXCEPT ![p] = nSpawned + 1]
               /\ rx' = [rx EXCEPT ![p] = nSpawned + 1]
               /\ spc' = [spc EXCEPT ![p] = "store"]
               /\ sres' = sres
          ELSE /\ spc' = [spc EXCEPT ![p] = "idle"]
               /\ sres' = [sres EXCEPT ![p] = SpawnError(outcome)]
               /\ UNCHANGED <<nSpawned, alive, child, rx>>
    /\ UNCHANGED <<serverState, lock, stpc, stres, statusObs, exitpc, exitChild,
                   writes, delivered, kills, monitor, overwritten, slotOp, streams,
                   emitted,
                   rxq, printed, lifeVars, proxy>>

\* line 261: lock, overwrite the slot with Some(child), unlock; the previous
\* value of the slot is dropped
start_server_store(p) ==
    /\ spc[p] = "store"
    /\ lock = "free"
    /\ serverState' = child[p]
    /\ overwritten' = IF serverState # None
                      THEN overwritten \cup {serverState}
                      ELSE overwritten
    /\ slotOp' = "store"
    /\ child' = [child EXCEPT ![p] = None]
    /\ spc' = [spc EXCEPT ![p] = "monitor"]
    /\ UNCHANGED <<lock, rx, sres, stpc, stres, statusObs, exitpc, exitChild,
                   nSpawned, alive, writes, delivered, kills, monitor, streams,
                   emitted,
                   rxq, printed, lifeVars, proxy>>

\* lines 264-289: launch the monitor task on rx and return success
start_server_monitor(p) ==
    /\ spc[p] = "monitor"
    /\ monitor' = [monitor EXCEPT ![rx[p]] = "running"]
    /\ rx' = [rx EXCEPT ![p] = None]
    /\ spc' = [spc EXCEPT ![p] = "idle"]
    /\ sres' = [sres EXCEPT ![p] = Ok("Server started successfully")]
    /\ UNCHANGED <<serverState, lock, child, stpc, stres, statusObs, exitpc,
                   exitChild, nSpawned, alive, writes, delivered, kills,
                   overwritten, slotOp, streams, emitted,
                   rxq, printed, lifeVars, proxy>>

(* ---------------------------- stop_server ----------------------------- *)

\* rx once worker w has been killed or has exited: if it was running, the
\* shell plugin sends CommandEvent::Terminated (line 279) as its last event
RxAfterExit(w) ==
    IF w \in alive
    THEN [rxq EXCEPT ![w] = Append(@, [kind |-> "Terminated", line |-> <<>>])]
    ELSE rxq

\* lines 298 and 384: child.write(b"SHUTDOWN\n") returns Ok or Err as the
\* operating system decides, whatever the state of worker w
WriteOutcomes(w) == BOOLEAN

\* mutant: the kill is left out of the Err arm
ShouldKillNever(writeOk) == FALSE

\* lines 298-302: kill only in the Err arm of the write
ShouldKill(writeOk) == ~writeOk

\* line 303
StoppedReply == Ok("Server stopped")

\* mutant: an empty slot is reported as an error
NotRunningError == Err("Server was not running")

\* line 305
NotRunningReply == Ok("Server was not running")

\* a caller invokes the command
stop_server_call(q) ==
    /\ stpc[q] = "idle"
    /\ stpc' = [stpc EXCEPT ![q] = "lock"]
    /\ stres' = [stres EXCEPT ![q] = NoResult]
    /\ UNCHANGED <<serverState, lock, spc, child, rx, sres, statusObs, exitpc,
                   exitChild, nSpawned, alive, writes, delivered, kills, monitor,
                   overwritten, slotOp, streams, emitted,
                   rxq, printed, lifeVars, proxy>>

\* mutant: the handle is used in place (as_mut) and stays in the slot
stop_server_in_place(q) ==
    /\ stpc[q] = "lock"
    /\ lock = "free"
    /\ stpc' = [stpc EXCEPT ![q] = "idle"]
    /\ IF serverState # None
       THEN /\ \E writeOk \in WriteOutcomes(serverState) :
                 /\ writes' = [writes EXCEPT ![serverState] = @ + 1]
                 /\ delivered' = IF writeOk
                                 THEN [delivered EXCEPT ![serverState] = @ + 1]
                                 ELSE delivered
                 /\ IF ShouldKill(writeOk)
                    THEN /\ kills' = [kills EXCEPT ![serverState] = @ + 1]
                         /\ alive' = alive \ {serverState}
                         /\ rxq' = RxAfterExit(serverState)
                    ELSE UNCHANGED <<kills, alive, rxq>>
            /\ UNCHANGED <<serverState, slotOp>>
            /\ stres' = [stres EXCEPT ![q] = StoppedReply]
       ELSE /\ stres' = [stres EXCEPT ![q] = NotRunningReply]
            /\ UNCHANGED <<serverState, slotOp, writes, delivered, kills, alive,
                           rxq>>
    /\ UNCHANGED <<lock, spc, child, rx, sres, statusObs, exitpc, exitChild,
                   nSpawned, monitor, overwritten, streams, emitted,
                   printed, lifeVars, proxy>>

\* lines 295-306: the whole body runs with the guard held
stop_server(q) ==
    /\ stpc[q] = "lock"
    /\ lock = "free"
    /\ stpc' = [stpc EXCEPT ![q] = "idle"]
    /\ IF serverState # None
       THEN /\ \E writeOk \in WriteOutcomes(serverState) :
                 /\ writes' = [writes EXCEPT ![serverState] = @ + 1]
                 /\ delivered' = IF writeOk
                                 THEN [delivered EXCEPT ![serverState] = @ + 1]
                                 ELSE delivered
                 /\ IF ShouldKill(writeOk)
                    THEN /\ kills' = [kills EXCEPT ![serverState] = @ + 1]
                         /\ alive' = alive \ {serverState}
                         /\ rxq' = RxAfterExit(serverState)
                    ELSE UNCHANGED <<kills, alive, rxq>>
            /\ serverState' = None
            /\ slotOp' = "take"
            /\ stres' = [stres EXCEPT ![q] = StoppedReply]
       ELSE /\ stres' = [stres EXCEPT ![q] = NotRunningReply]
            /\ UNCHANGED <<serverState, slotOp, writes, delivered, kills, alive,
                           rxq>>
    /\ UNCHANGED <<lock, spc, child, rx, sres, statusObs, exitpc, exitChild,
                   nSpawned, monitor, overwritten, streams, emitted,
                   printed, lifeVars, proxy>>

(* --------------------------- server_status ---------------------------- *)

\* a start_server call has returned success for a worker whose
\* server-terminated event has not been published
TerminationPending ==
    \E w \in Workers : monitor[w] # "none" /\ ~TermPublished(w)

\* a start_server call has returned success and the slot was last changed by
\* a store, not by a take
HeldSinceStart ==
    slotOp = "store" /\ \E w \in Workers : monitor[w] # "none"

\* lines 311-313; the observation keeps, beside the returned value, whether a
\* termination event was still pending and whether a take followed the store
server_status ==
    /\ lock = "free"
    /\ statusObs' = [res |-> IF serverState # None THEN "true" ELSE "false",
                     pending |-> TerminationPending,
                     held |-> HeldSinceStart]
    /\ UNCHANGED <<serverState, lock, spc, child, rx, sres, stpc, stres, exitpc,
                   exitChild, nSpawned, alive, writes, delivered, kills, monitor,
                   overwritten, slotOp, streams, emitted,
                   rxq, printed, lifeVars, proxy>>

(* ------------------------- RunEvent::Exit arm ------------------------- *)

\* lines 380-384: lock, take the handle, write the sentinel (result ignored);
\* the guard lives to the end of the arm
run_exit_take ==
    /\ exitpc = "idle"
    /\ lock = "free"
    /\ IF serverState # None
       THEN /\ \E writeOk \in WriteOutcomes(serverState) :
                 /\ writes' = [writes EXCEPT ![serverState] = @ + 1]
                 /\ delivered' = IF writeOk
                                 THEN [delivered EXCEPT ![serverState] = @ + 1]
                                 ELSE delivered
            /\ exitChild' = serverState
            /\ serverState' = None
            /\ slotOp' = "take"
            /\ lock' = "exit"
            /\ exitpc' = "sleep"
       ELSE /\ exitpc' = "done"
            /\ UNCHANGED <<serverState, slotOp, lock, exitChild, writes, delivered>>
    /\ UNCHANGED <<spc, child, rx, sres, stpc, stres, statusObs, nSpawned, alive,
                   kills, monitor, overwritten, streams, emitted,
                   rxq, printed, lifeVars, proxy>>

\* line 386: the grace period elapses
run_exit_sleep ==
    /\ exitpc = "sleep"
    /\ exitpc' = "kill"
    /\ UNCHANGED <<serverState, lock, spc, child, rx, sres, stpc, stres, statusObs,
                   exitChild, nSpawned, alive, writes, delivered, kills, monitor,
                   overwritten, slotOp, streams, emitted,
                   rxq, printed, lifeVars, proxy>>

\* mutant: the kill is made only if the worker is still running
run_exit_kill_if_running ==
    /\ exitpc = "kill"
    /\ kills' = IF exitChild \in alive
                THEN [kills EXCEPT ![exitChild] = @ + 1]
                ELSE kills
    /\ alive' = alive \ {exitChild}
    /\ rxq' = RxAfterExit(exitChild)
    /\ exitChild' = None
    /\ lock' = "free"
    /\ exitpc' = "done"
    /\ UNCHANGED <<serverState, spc, child, rx, sres, stpc, stres, statusObs,
                   nSpawned, writes, delivered, monitor, overwritten, slotOp,
                   streams, emitted, printed, lifeVars, proxy>>

\* lines 387-389: kill unconditionally, drop the child and the guard
run_exit_kill ==
    /\ exitpc = "kill"
    /\ kills' = [kills EXCEPT ![exitChild] = @ + 1]
    /\ alive' = alive \ {exitChild}
    /\ rxq' = RxAfterExit(exitChild)
    /\ exitChild' = None
    /\ lock' = "free"
    /\ exitpc' = "done"
    /\ UNCHANGED <<serverState, spc, child, rx, sres, stpc, stres, statusObs,
                   nSpawned, writes, delivered, monitor, overwritten, slotOp,
                   streams, emitted, printed, lifeVars, proxy>>

(* ----------------------- worker and monitor task ---------------------- *)

\* lines 269, 274 and 279: the CommandEvents the monitor matches on
CommandEvent(kind, line) == [kind |-> kind, line |-> line]

\* the output a worker can write: "OK" on stdout, and on stderr "E" followed
\* by a byte that is not valid UTF-8
Lines == {CommandEvent("Stdout", <<79, 75>>), CommandEvent("Stderr", <<69, 255>>)}

\* the lines all workers have written so far
RECURSIVE TotalPrinted(_)
TotalPrinted(ws) ==
    IF ws = {} THEN 0
    ELSE LET w == CHOOSE x \in ws : TRUE
         IN Len(printed[w]) + TotalPrinted(ws \ {w})

\* the sidecar process writes a line to its stdout or stderr; the shell
\* plugin sends it to rx
worker_prints(w) ==
    /\ w \in alive
    /\ TotalPrinted(Workers) < MaxLines
    /\ \E ev \in Lines :
          /\ rxq' = [rxq EXCEPT ![w] = Append(@, ev)]
          /\ printed' = [printed EXCEPT ![w] = Append(@, ev)]
    /\ UNCHANGED <<serverState, lock, spc, child, rx, sres, stpc, stres, statusObs,
                   exitpc, exitChild, nSpawned, alive, writes, delivered, kills,
                   monitor, overwritten, slotOp, streams, emitted, lifeVars, proxy>>

\* the sidecar process terminates by itself (on the sentinel, or a crash);
\* CommandEvent::Terminated is the last event sent to rx
worker_terminates(w) ==
    /\ w \in alive
    /\ alive' = alive \ {w}
    /\ rxq' = RxAfterExit(w)
    /\ UNCHANGED <<serverState, lock, spc, child, rx, sres, stpc, stres, statusObs,
                   exitpc, exitChild, nSpawned, writes, delivered, kills, monitor,
                   overwritten, slotOp, streams, emitted, printed, lifeVars, proxy>>

\* the task that monitors worker w, as the publisher of an event
MonitorTask(w) == 0 - w

\* lines 269-278: the channel a line of output is republished on
LogChannel(kind) == IF kind = "Stdout" THEN "server-log" ELSE "server-error"

\* mutant: the monitor republishes every line on server-log
monitor_line_one_channel(w) ==
    /\ monitor[w] = "running"
    /\ rxq[w] # <<>>
    /\ Head(rxq[w]).kind \in {"Stdout", "Stderr"}
    /\ rxq' = [rxq EXCEPT ![w] = Tail(@)]
    /\ emitted' = Append(emitted,
           Event(MonitorTask(w), "server-log", "",
                 Utf8Lossy(Head(rxq[w]).line), ""))
    /\ UNCHANGED <<serverState, lock, spc, child, rx, sres, stpc, stres, statusObs,
                   exitpc, exitChild, nSpawned, alive, writes, delivered, kills,
                   monitor, overwritten, slotOp, streams, printed, lifeVars, proxy>>

\* lines 267-278: the monitor receives a Stdout or Stderr event and
\* republishes the line, lossily decoded
monitor_line(w) ==
    /\ monitor[w] = "running"
    /\ rxq[w] # <<>>
    /\ Head(rxq[w]).kind \in {"Stdout", "Stderr"}
    /\ rxq' = [rxq EXCEPT ![w] = Tail(@)]
    /\ emitted' = Append(emitted,
           Event(MonitorTask(w), LogChannel(Head(rxq[w]).kind), "",
                 Utf8Lossy(Head(rxq[w]).line), ""))
    /\ UNCHANGED <<serverState, lock, spc, child, rx, sres, stpc, stres, statusObs,
                   exitpc, exitChild, nSpawned, alive, writes, delivered, kills,
                   monitor, overwritten, slotOp, streams, printed, lifeVars, proxy>>

\* mutant: the monitor clears the slot when its worker terminates
monitor_terminated_clears(w) ==
    /\ monitor[w] = "running"
    /\ rxq[w] # <<>>
    /\ Head(rxq[w]).kind = "Terminated"
    /\ rxq' = [rxq EXCEPT ![w] = Tail(@)]
    /\ monitor' = [monitor EXCEPT ![w] = "done"]
    /\ emitted' = Append(emitted,
           Event(MonitorTask(w), "server-terminated", "", <<w>>, ""))
    /\ serverState' = IF serverState = w THEN None ELSE serverState
    /\ UNCHANGED <<lock, spc, child, rx, sres, stpc, stres, statusObs,
                   exitpc, exitChild, nSpawned, alive, writes, delivered, kills,
                   overwritten, slotOp, streams, printed, lifeVars, proxy>>

\* lines 279-283: the monitor receives CommandEvent::Terminated, publishes
\* server-terminated and ends; it does not touch the slot
monitor_terminated(w) ==
    /\ monitor[w] = "running"
    /\ rxq[w] # <<>>
    /\ Head(rxq[w]).kind = "Terminated"
    /\ rxq' = [rxq EXCEPT ![w] = Tail(@)]
    /\ monitor' = [monitor EXCEPT ![w] = "done"]
    /\ emitted' = Append(emitted,
           Event(MonitorTask(w), "server-terminated", "", <<w>>, ""))
    /\ UNCHANGED <<serverState, lock, spc, child, rx, sres, stpc, stres, statusObs,
                   exitpc, exitChild, nSpawned, alive, writes, delivered, kills,
                   overwritten, slotOp, streams, printed, lifeVars, proxy>>

(* ----------------------------- api_stream ---------------------------- *)

\* the caller-supplied event_id values
EventIds == {"a", "b"}

\* the `method` argument: None, or a string
Methods == {"none", "GET", "get", "post", "PUT"}

\* line 190: to_uppercase(), on the strings of Methods
ToUppercase(m) ==
    CASE m = "get" -> "GET"
      [] m = "post" -> "POST"
      [] OTHER -> m

\* line 190: method.unwrap_or_else(|| "GET".to_string()).to_uppercase()
EffectiveMethod(method) ==
    ToUppercase(IF method = "none" THEN "GET" ELSE method)

\* the status codes the backend answers with
Statuses == {200, 204, 404, 500}

\* mutant: only server errors count as failures
IsSuccessLoose(status) == status < 500

\* lines 43, 75, 107, 139, 166 and 208: status.is_success()
IsSuccess(status) == status >= 200 /\ status <= 299

\* the byte strings a read of the body can deliver: "Hi" and a byte that
\* is not valid UTF-8
Chunks == {<<72, 105>>, <<255>>}

\* mutant: the event_id is left out of the channel name
ChannelShared(event_id) == "stream-event-"

\* lines 218, 225, 234: format!("stream-event-{}", event_id)
Channel(event_id) == "stream-event-" \o event_id

\* a streaming request that has not been made
NoStream == [pc |-> "idle", event_id |-> "", received |-> <<>>, res |-> NoResult,
             req |-> <<>>]

\* lines 192-196: the methods a request is built for
Supported(method) == method \in {"GET", "POST"}

\* lines 187-211: what the initiation comes to, (position, result): the
\* error returned, or Ok(()) with the background task spawned
Initiation(method, sent, status) ==
    IF ~Supported(EffectiveMethod(method))
    THEN <<"rejected", Err("Unsupported method")>>
    ELSE IF ~sent
    THEN <<"rejected", Err("Request failed")>>
    ELSE IF ~IsSuccess(status)
    THEN <<"rejected", Err("HTTP")>>
    ELSE <<"reading", Ok("")>>

\* lines 179-240: the command, up to its return; req keeps the arguments and
\* what the backend answered until the background task makes its first read
api_stream(t) ==
    /\ streams[t].pc = "idle"
    /\ \E method \in Methods, id \in EventIds, sent \in BOOLEAN, status \in Statuses :
          streams' = [streams EXCEPT ![t] =
              [@ EXCEPT !.pc = Initiation(method, sent, status)[1],
                        !.res = Initiation(method, sent, status)[2],
                        !.event_id = id,
                        !.req = <<[method |-> method, sent |-> sent,
                                   status |-> status]>>]]
    /\ UNCHANGED <<supVars, lifeVars, proxy, emitted>>

\* mutant: a chunk that is not valid UTF-8 is read and not published
stream_chunk_strict(t) ==
    /\ streams[t].pc = "reading"
    /\ Len(streams[t].received) < MaxChunks
    /\ \E chunk \in Chunks :
          /\ streams' = [streams EXCEPT ![t].received = Append(@, chunk),
                                        ![t].req = <<>>]
          /\ emitted' = IF \A i \in 1..Len(chunk) : chunk[i] < 128
                        THEN Append(emitted,
                                 Event(t, Channel(streams[t].event_id), "chunk",
                                       Utf8Lossy(chunk), ""))
                        ELSE emitted
    /\ UNCHANGED <<supVars, lifeVars, proxy>>

\* lines 216-222: Ok(Some(chunk)): publish it as one chunk event
stream_chunk(t) ==
    /\ streams[t].pc = "reading"
    /\ Len(streams[t].received) < MaxChunks
    /\ \E chunk \in Chunks :
          /\ streams' = [streams EXCEPT ![t].received = Append(@, chunk),
                                        ![t].req = <<>>]
          /\ emitted' = Append(emitted,
                 Event(t, Channel(streams[t].event_id), "chunk", Utf8Lossy(chunk), ""))
    /\ UNCHANGED <<supVars, lifeVars, proxy>>

\* lines 223 and 234-236: Ok(None): leave the loop and publish done
stream_end(t) ==
    /\ streams[t].pc = "reading"
    /\ streams' = [streams EXCEPT ![t].pc = "done", ![t].req = <<>>]
    /\ emitted' = Append(emitted,
           Event(t, Channel(streams[t].event_id), "done", <<>>, ""))
    /\ UNCHANGED <<supVars, lifeVars, proxy>>

\* mutant: the Err arm leaves the loop with break, so done follows error
stream_error_break(t) ==
    /\ streams[t].pc = "reading"
    /\ streams' = [streams EXCEPT ![t].pc = "failed", ![t].req = <<>>]
    /\ emitted' = emitted \o
           <<Event(t, Channel(streams[t].event_id), "error", <<>>, "read error"),
             Event(t, Channel(streams[t].event_id), "done", <<>>, "")>>
    /\ UNCHANGED <<supVars, lifeVars, proxy>>

\* lines 224-230: Err(e): publish error and return from the task
stream_error(t) ==
    /\ streams[t].pc = "reading"
    /\ streams' = [streams EXCEPT ![t].pc = "failed", ![t].req = <<>>]
    /\ emitted' = Append(emitted,
           Event(t, Channel(streams[t].event_id), "error", <<>>, "read error"))
    /\ UNCHANGED <<supVars, lifeVars, proxy>>

(* ------------------------ unary proxy commands ------------------------ *)

\* a response body: whether reading it succeeds, and its text
Bodies ==
    {[readable |-> TRUE,  text |-> "{\"detail\":\"not found\"}"],
     [readable |-> TRUE,  text |-> "null"],
     [readable |-> TRUE,  text |-> "not json"],
     [readable |-> FALSE, text |-> "null"]}

\* lines 48-51: serde_json's parse of a body text, on the texts of Bodies:
\* the value, or <<>> when the text is not JSON
ParseJson(text) ==
    CASE text = "{\"detail\":\"not found\"}" -> <<"object", "detail", "not found">>
      [] text = "null" -> <<"null">>
      [] OTHER -> <<>>

\* the result of a proxy command: Ok(value), or Err(message) where the
\* message is made of a kind, a status and a body text
ProxyOk(value) ==
    [ok |-> TRUE, msg |-> "", status |-> 0, text |-> "", value |-> value]
ProxyErr(msg, status, text) ==
    [ok |-> FALSE, msg |-> msg, status |-> status, text |-> text, value |-> <<>>]

\* mutant: the body is parsed before the status is looked at
ProxyResultParseFirst(sent, status, body) ==
    IF ~sent
    THEN ProxyErr("Request failed", 0, "")
    ELSE IF body.readable /\ ParseJson(body.text) # <<>>
    THEN ProxyOk(ParseJson(body.text))
    ELSE IF ~IsSuccess(status)
    THEN ProxyErr("HTTP", status, IF body.readable THEN body.text ELSE "")
    ELSE ProxyErr("Failed to parse JSON", 0, "")

\* lines 36-51 (and 69-83, 101-115, 133-147, 159-174, the same code): send,
\* then the status, then the JSON body
ProxyResult(sent, status, body) ==
    IF ~sent
    THEN ProxyErr("Request failed", 0, "")
    ELSE IF ~IsSuccess(status)
    THEN ProxyErr("HTTP", status, IF body.readable THEN body.text ELSE "")
    ELSE IF ~body.readable \/ ParseJson(body.text) = <<>>
    THEN ProxyErr("Failed to parse JSON", 0, "")
    ELSE ProxyOk(ParseJson(body.text))

\* no proxy request made yet
NoProxy ==
    [verb |-> "-", json |-> FALSE, sent |-> FALSE, status |-> 0,
     body |-> [readable |-> FALSE, text |-> ""], res |-> ProxyOk(<<>>)]

\* one request: `json` tells whether a JSON body was attached (lines 65-67)
Request(verb, json, sent, status, body) ==
    /\ proxy' = [verb |-> verb, json |-> json, sent |-> sent, status |-> status,
                 body |-> body, res |-> ProxyResult(sent, status, body)]
    /\ UNCHANGED <<supVars, lifeVars, streams, emitted>>

\* lines 29-52
api_get ==
    \E sent \in BOOLEAN, status \in Statuses, body \in Bodies :
        Request("GET", FALSE, sent, status, body)

\* lines 56-84
api_post ==
    \E json \in BOOLEAN, sent \in BOOLEAN, status \in Statuses, body \in Bodies :
        Request("POST", json, sent, status, body)

\* lines 88-116
api_put ==
    \E json \in BOOLEAN, sent \in BOOLEAN, status \in Statuses, body \in Bodies :
        Request("PUT", json, sent, status, body)

\* lines 120-148
api_patch ==
    \E json \in BOOLEAN, sent \in BOOLEAN, status \in Statuses, body \in Bodies :
        Request("PATCH", json, sent, status, body)

\* lines 152-175
api_delete ==
    \E sent \in BOOLEAN, status \in Statuses, body \in Bodies :
        Request("DELETE", FALSE, sent, status, body)

(* ------------------------ lifecycle controller ------------------------ *)

\* the builds: with the macOS arms of lines 358-377 compiled in, or without
Platforms == {"macos", "other"}

\* the labels of the application's windows; Reopen looks up "main"
WindowLabels == {"main", "settings", "about"}

\* no CloseRequested event yet
NoClose == [label |-> "-", suppressed |-> FALSE, quitBefore |-> FALSE,
            before |-> "-", after |-> "-"]

\* lines 352-355: ExitRequested stores true in is_quitting
exit_requested ==
    /\ isQuitting' = TRUE
    /\ quitSeen' = TRUE
    /\ UNCHANGED <<supVars, platform, windows, closeObs, proxy, streams, emitted>>

\* mutant: the close is suppressed whether or not the application is quitting
HideAlways(pf, quitting) == pf = "macos"

\* lines 358-361: the macOS arm, entered while is_quitting is false
HideInsteadOfClose(pf, quitting) == pf = "macos" /\ ~quitting

\* lines 356-370: CloseRequested for window l: prevent the close and hide
\* the window, or let the close proceed
close_requested(l) ==
    /\ windows[l] # "closed"
    /\ IF HideInsteadOfClose(platform, isQuitting)
       THEN /\ windows' = [windows EXCEPT ![l] = "hidden"]
            /\ closeObs' = [label |-> l, suppressed |-> TRUE,
                            quitBefore |-> quitSeen, before |-> windows[l],
                            after |-> "hidden"]
       ELSE /\ windows' = [windows EXCEPT ![l] = "closed"]
            /\ closeObs' = [label |-> l, suppressed |-> FALSE,
                            quitBefore |-> quitSeen, before |-> windows[l],
                            after |-> "closed"]
    /\ UNCHANGED <<supVars, isQuitting, quitSeen, platform, proxy, streams, emitted>>

\* lines 371-377: Reopen (macOS only) shows the main window if it exists
reopen ==
    /\ platform = "macos"
    /\ windows' = IF windows["main"] # "closed"
                  THEN [windows EXCEPT !["main"] = "visible"]
                  ELSE windows
    /\ UNCHANGED <<supVars, isQuitting, quitSeen, platform, closeObs, proxy,
                   streams, emitted>>

(* -------------------- the supervisor's specification ------------------ *)

NoStatus == [res |-> "-", pending |-> FALSE, held |-> FALSE]

\* lines 325-327: manage(ServerState(Mutex::new(None))); nothing spawned
Construct(pf) ==
    /\ serverState = None
    /\ lock = "free"
    /\ spc = [p \in Starters |-> "idle"]
    /\ child = [p \in Starters |-> None]
    /\ rx = [p \in Starters |-> None]
    /\ sres = [p \in Starters |-> NoResult]
    /\ stpc = [q \in Stoppers |-> "idle"]
    /\ stres = [q \in Stoppers |-> NoResult]
    /\ statusObs = NoStatus
    /\ exitpc = "idle"
    /\ exitChild = None
    /\ nSpawned = 0
    /\ alive = {}
    /\ writes = [w \in Workers |-> 0]
    /\ delivered = [w \in Workers |-> 0]
    /\ kills = [w \in Workers |-> 0]
    /\ monitor = [w \in Workers |-> "none"]
    /\ overwritten = {}
    /\ slotOp = "init"
    /\ rxq = [w \in Workers |-> <<>>]
    /\ printed = [w \in Workers |-> <<>>]
    /\ isQuitting = FALSE
    /\ quitSeen = FALSE
    /\ platform = pf
    /\ windows = [l \in WindowLabels |-> "visible"]
    /\ closeObs = NoClose
    /\ proxy = NoProxy
    /\ streams = [t \in StreamTasks |-> NoStream]
    /\ emitted = <<>>

\* the supervisor, the bridge and the proxy do not depend on the build
Init == Construct("macos")

Next ==
    \/ \E p \in Starters : start_server_check(p)
    \/ \E p \in Starters : start_server_spawn(p)
    \/ \E p \in Starters : start_server_store(p)
    \/ \E p \in Starters : start_server_monitor(p)
    \/ \E q \in Stoppers : stop_server_call(q)
    \/ \E q \in Stoppers : stop_server(q)
    \/ server_status
    \/ run_exit_take
    \/ run_exit_sleep
    \/ run_exit_kill
    \/ \E w \in Workers : worker_terminates(w)
    \/ \E w \in Workers : monitor_terminated(w)

Spec == Init /\ [][Next]_vars

(* ------------------ the streaming bridge's specification -------------- *)

NextStream ==
    \/ \E t \in StreamTasks : api_stream(t)
    \/ \E t \in StreamTasks : stream_chunk(t)
    \/ \E t \in StreamTasks : stream_end(t)
    \/ \E t \in StreamTasks : stream_error(t)

SpecStream == Init /\ [][NextStream]_vars

(* ------------------ sequential start_server / stop_server ------------- *)

\* the frontend awaits each command before it invokes the next
SeqCaller == "ui"

\* no command of the caller is in progress
Returned == spc[SeqCaller] = "idle" /\ stpc[SeqCaller] = "idle"

NextSeq ==
    \/ Returned /\ start_server_check(SeqCaller)
    \/ start_server_spawn(SeqCaller)
    \/ start_server_store(SeqCaller)
    \/ start_server_monitor(SeqCaller)
    \/ Returned /\ stop_server_call(SeqCaller)
    \/ stop_server(SeqCaller)
    \/ \E w \in Workers : worker_terminates(w)
    \/ \E w \in Workers : monitor_terminated(w)

SpecSeq == Init /\ [][NextSeq]_vars

(* ------------------- the monitor task's specification ----------------- *)

\* the supervisor with workers that write output, shut down by the Exit
\* arm; the frontend is the only caller of start_server
MonitorStarters == {"ui"}

NextMonitor ==
    \/ \E p \in MonitorStarters : start_server_check(p)
    \/ \E p \in MonitorStarters : start_server_spawn(p)
    \/ \E p \in MonitorStarters : start_server_store(p)
    \/ \E p \in MonitorStarters : start_server_monitor(p)
    \/ run_exit_take
    \/ run_exit_sleep
    \/ run_exit_kill
    \/ \E w \in Workers : worker_prints(w)
    \/ \E w \in Workers : worker_terminates(w)
    \/ \E w \in Workers : monitor_line(w)
    \/ \E w \in Workers : monitor_terminated(w)

SpecMonitor == Init /\ [][NextMonitor]_vars

(* ----------------- the lifecycle controller's specification ---------- *)

InitLifecycle == \E pf \in Platforms : Construct(pf)

NextLifecycle ==
    \/ exit_requested
    \/ \E l \in WindowLabels : close_requested(l)
    \/ reopen

SpecLifecycle == InitLifecycle /\ [][NextLifecycle]_vars

(* -------------------- the proxy client's specification ---------------- *)

NextProxy ==
    \/ api_get
    \/ api_post
    \/ api_put
    \/ api_patch
    \/ api_delete

SpecProxy == Init /\ [][NextProxy]_vars


(* ============================== claims ================================ *)

\* the workers whose CommandChild is held somewhere: in the slot, in the
\* local of a start_server that has spawned and not stored, or in the local
\* of the Exit arm
Handles ==
    {w \in Workers :
        serverState = w \/ exitChild = w \/ \E p \in Starters : child[p] = w}

\* C1: at most one worker handle exists at any time and no stored handle is
\* ever overwritten by a later start_server.
C1_AtMostOneHandle ==
    Cardinality(Handles) <= 1 /\ overwritten = {}

\* a step of start_server taken by caller p from the entry of the command
StartEntryStep(p) ==
    spc[p] = "idle" /\ (spc'[p] # "idle" \/ sres'[p] # sres[p])

\* C2: a start_server that finds a handle in the slot returns "Server already
\* running", spawns no process, launches no monitor and leaves the slot as
\* it is.
C2_AlreadyRunningIsNoOp ==
    [][\A p \in Starters :
          (StartEntryStep(p) /\ serverState # None) =>
              /\ sres'[p] = [ok |-> TRUE, msg |-> "Server already running"]
              /\ spc'[p] = "idle"
              /\ UNCHANGED <<serverState, nSpawned, alive, monitor, child, rx,
                             writes, kills, emitted>>]_vars

\* C2 witness: with one worker spawned, both callers got the idempotent reply
C2_Witness ==
    /\ nSpawned = 1
    /\ serverState = 1
    /\ \A p \in Starters : sres[p] = [ok |-> TRUE, msg |-> "Server already running"]

\* the step in which stop_server caller q runs the body and returns
StopStep(q) == stpc[q] = "lock" /\ stpc'[q] = "idle"

\* C3: a stop_server that finds the slot empty returns the success message
\* "Server was not running", writes no sentinel, kills nothing and leaves the
\* slot empty.
C3_StopWhenNotRunning ==
    [][\A q \in Stoppers :
          (StopStep(q) /\ serverState = None) =>
              /\ stres'[q] = [ok |-> TRUE, msg |-> "Server was not running"]
              /\ serverState' = None
              /\ UNCHANGED <<writes, delivered, kills, alive>>]_vars

\* C3 witness: stop_server returned "Server was not running" and the Exit arm
\* has taken a handle (only it kills after a delivered sentinel)
C3_Witness ==
    /\ stres["ui"] = [ok |-> TRUE, msg |-> "Server was not running"]
    /\ exitpc = "done"
    /\ \E w \in Workers : delivered[w] = 1 /\ kills[w] = 1

\* C4: a stop_server that finds a handle empties the slot, writes the
\* sentinel once, kills the worker exactly when the write failed, touches no
\* other worker and returns the success message "Server stopped".
C4_StopWhenRunning ==
    [][\A q \in Stoppers :
          (StopStep(q) /\ serverState # None) =>
              /\ serverState' = None
              /\ writes'[serverState] = writes[serverState] + 1
              /\ \/ /\ delivered'[serverState] = delivered[serverState] + 1
                    /\ kills'[serverState] = kills[serverState]
                 \/ /\ delivered'[serverState] = delivered[serverState]
                    /\ kills'[serverState] = kills[serverState] + 1
                    /\ serverState \notin alive'
              /\ \A v \in Workers \ {serverState} :
                    /\ writes'[v] = writes[v]
                    /\ delivered'[v] = delivered[v]
                    /\ kills'[v] = kills[v]
              /\ stres'[q] = [ok |-> TRUE, msg |-> "Server stopped"]]_vars

\* C4 witness: stop_server returned "Server stopped" after a failed write
\* and the kill that follows it (the Exit arm has not run)
C4_Witness ==
    /\ stres["ui"] = [ok |-> TRUE, msg |-> "Server stopped"]
    /\ exitpc = "idle"
    /\ serverState = None
    /\ \E w \in Workers : writes[w] = 1 /\ delivered[w] = 0 /\ kills[w] = 1

\* C5: stop_server never blocks: a stop_server that has been invoked never
\* waits for the mutex while the Exit arm holds it over its grace period.
C5_StopNeverWaits ==
    \A q \in Stoppers : stpc[q] = "lock" => lock = "free"

\* C6 as stated: server_status returns true as long as the termination
\* event of a successfully started worker has not been published.
C6_TrueUntilTerminated ==
    statusObs.pending => statusObs.res = "true"

\* C6 as amended: after a start_server that returned success, server_status
\* returns true as long as no stop_server and no Exit arm has taken the
\* handle out of the slot since the last store; the termination event does
\* not make it false.
C6_TrueUntilTaken ==
    statusObs.held => statusObs.res = "true"

\* C6 witness: server_status returned true after a successful start, with no
\* take and no termination event pending any more
C6_Witness ==
    statusObs.held /\ ~statusObs.pending /\ statusObs.res = "true"

\* C7: a start_server whose sidecar creation or spawn fails returns an
\* error, leaves the slot, the processes, the monitors and the events as they
\* are, and ends (no retry); any start_server that finds the slot empty goes
\* on to spawn, whatever happened before.
C7_SpawnFailure ==
    [][\A p \in Starters :
          /\ (spc[p] = "spawn" /\ spc'[p] = "idle") =>
                 /\ sres'[p] \in {[ok |-> FALSE, msg |-> "Failed to create sidecar command"],
                                  [ok |-> FALSE, msg |-> "Failed to spawn sidecar"]}
                 /\ UNCHANGED <<serverState, slotOp, nSpawned, alive, monitor,
                                child, rx, emitted>>
          /\ (StartEntryStep(p) /\ serverState = None) => spc'[p] = "spawn"]_vars

\* C7 witness: a spawn failed, the slot is empty and nothing was spawned
C7_Witness ==
    /\ sres["ui"] = [ok |-> FALSE, msg |-> "Failed to spawn sidecar"]
    /\ spc["ui"] = "idle"
    /\ serverState = None
    /\ nSpawned = 0
    /\ emitted = <<>>

\* the chunk events stream task t owes for the chunks it has received
ChunkEvents(t) ==
    [i \in 1..Len(streams[t].received) |->
        [by |-> t,
         channel |-> "stream-event-" \o streams[t].event_id,
         type |-> "chunk",
         data |-> Utf8Lossy(streams[t].received[i]),
         message |-> ""]]

\* C8: a stream that ended normally after N chunks has published exactly the
\* N chunk events, in receipt order, then one done event, and nothing else.
C8_NormalEnd ==
    \A t \in StreamTasks :
        streams[t].pc = "done" =>
            ByTask(emitted, t) =
                Append(ChunkEvents(t),
                       [by |-> t,
                        channel |-> "stream-event-" \o streams[t].event_id,
                        type |-> "done", data |-> <<>>, message |-> ""])

\* C8 witness: a stream ended normally after two chunks
C8_Witness ==
    \E t \in StreamTasks :
        streams[t].pc = "done" /\ Len(streams[t].received) = 2

\* C9: a stream whose read failed after K chunks has published exactly the K
\* chunk events, in receipt order, then one error event, and nothing else.
C9_ReadError ==
    \A t \in StreamTasks :
        streams[t].pc = "failed" =>
            ByTask(emitted, t) =
                Append(ChunkEvents(t),
                       [by |-> t,
                        channel |-> "stream-event-" \o streams[t].event_id,
                        type |-> "error", data |-> <<>>, message |-> "read error"])

\* C9 witness: a read failed after one chunk
C9_Witness ==
    \E t \in StreamTasks :
        streams[t].pc = "failed" /\ Len(streams[t].received) = 1

\* stream t has got past the initiation
Streaming(t) == streams[t].pc \in {"reading", "done", "failed"}

\* C10: of two streams with distinct event ids, each one's channel carries
\* exactly the events of its own task, in the order the task published them.
C10_ChannelsSeparate ==
    \A t, u \in StreamTasks :
        (Streaming(t) /\ Streaming(u) /\ streams[t].event_id # streams[u].event_id) =>
            OnChannel(emitted, "stream-event-" \o streams[t].event_id)
                = ByTask(emitted, t)

\* C10 witness: two streams with distinct ids have both ended, their events
\* interleaved
C10_Witness ==
    /\ streams[1].pc = "done"
    /\ streams[2].pc = "failed"
    /\ streams[1].event_id # streams[2].event_id
    /\ Len(emitted) = 4
    /\ emitted[1].by = 1
    /\ emitted[2].by = 2
    /\ emitted[3].by = 1

\* C11: api_stream returns an error exactly when the initiation fails (a
\* method that is neither GET nor POST, in any case of letters, a request that
\* could not be sent, or a status outside 200..299); then no background task
\* runs and the request publishes no event. It returns Ok only after a 2xx
\* response, with the task started and before any event of the stream.
C11_InitiationResult ==
    \A t \in StreamTasks :
        streams[t].req # <<>> =>
            LET r == streams[t].req[1]
                fails == \/ r.method \notin {"none", "GET", "get", "POST", "post"}
                         \/ ~r.sent
                         \/ r.status < 200
                         \/ r.status > 299
            IN /\ streams[t].res.ok = ~fails
               /\ streams[t].pc = IF fails THEN "rejected" ELSE "reading"
               /\ ByTask(emitted, t) = <<>>

\* C11 witness: one request was refused for a 404 answer and publishes
\* nothing while the other stream, accepted, has published its events
C11_Witness ==
    /\ streams[1].pc = "rejected"
    /\ streams[1].req = <<[method |-> "post", sent |-> TRUE, status |-> 404]>>
    /\ ~streams[1].res.ok
    /\ streams[2].pc = "done"
    /\ streams[2].event_id = streams[1].event_id
    /\ Len(emitted) = 2

\* C12: every unary proxy request has exactly this result: a transport
\* error if it could not be sent; else, for a status outside 200..299, an
\* HTTP error with the status and the body text verbatim ("" if unreadable),
\* also when the text is JSON; else a decode error if the body is not JSON;
\* else the parsed value.
C12_Classification ==
    proxy.verb # "-" =>
        /\ proxy.verb \in {"GET", "POST", "PUT", "PATCH", "DELETE"}
        /\ IF ~proxy.sent
           THEN proxy.res = [ok |-> FALSE, msg |-> "Request failed", status |-> 0,
                             text |-> "", value |-> <<>>]
           ELSE IF proxy.status < 200 \/ proxy.status > 299
           THEN proxy.res = [ok |-> FALSE, msg |-> "HTTP", status |-> proxy.status,
                             text |-> IF proxy.body.readable
                                      THEN proxy.body.text ELSE "",
                             value |-> <<>>]
           ELSE IF ~proxy.body.readable
                   \/ proxy.body.text \notin {"{\"detail\":\"not found\"}", "null"}
           THEN proxy.res = [ok |-> FALSE, msg |-> "Failed to parse JSON",
                             status |-> 0, text |-> "", value |-> <<>>]
           ELSE proxy.res = [ok |-> TRUE, msg |-> "", status |-> 0, text |-> "",
                             value |-> IF proxy.body.text = "null"
                                       THEN <<"null">>
                                       ELSE <<"object", "detail", "not found">>]

\* C12 witness: a 404 answer with the body {"detail":"not found"} came back
\* as an HTTP error with that status and text
C12_Witness ==
    /\ proxy.verb = "DELETE"
    /\ proxy.sent
    /\ proxy.status = 404
    /\ proxy.body = [readable |-> TRUE, text |-> "{\"detail\":\"not found\"}"]
    /\ proxy.res = [ok |-> FALSE, msg |-> "HTTP", status |-> 404,
                    text |-> "{\"detail\":\"not found\"}", value |-> <<>>]

\* C13: is_quitting is false until the first ExitRequested and true ever
\* after; a CloseRequested is suppressed, and its window hidden, exactly on
\* the macOS build when no ExitRequested came before it, and the close
\* proceeds in every other case.
C13_QuitFlagAndClose ==
    /\ isQuitting = quitSeen
    /\ closeObs.label # "-" =>
          /\ closeObs.suppressed = (platform = "macos" /\ ~closeObs.quitBefore)
          /\ closeObs.after = IF closeObs.suppressed THEN "hidden" ELSE "closed"

\* C13 witness: on macOS a window was hidden by a close request before the
\* quit request and another was closed by a close request after it
C13_Witness ==
    /\ platform = "macos"
    /\ isQuitting
    /\ windows["main"] = "hidden"
    /\ windows["about"] = "closed"
    /\ closeObs = [label |-> "about", suppressed |-> FALSE, quitBefore |-> TRUE,
                   before |-> "visible", after |-> "closed"]

\* C14: the Exit arm, finding a handle, takes it out of the slot and writes
\* the sentinel once, then waits, then kills the worker whatever the write
\* returned and whether or not the worker is still running, in this order;
\* the slot is empty from the take to the end of the arm. Finding the slot
\* empty, it ends at once and changes nothing.
C14_ExitShutdown ==
    [][/\ (exitpc = "idle" /\ exitpc' # "idle") =>
             IF serverState # None
             THEN /\ exitpc' = "sleep"
                  /\ serverState' = None
                  /\ exitChild' = serverState
                  /\ writes'[serverState] = writes[serverState] + 1
                  /\ UNCHANGED <<kills, alive>>
             ELSE /\ exitpc' = "done"
                  /\ UNCHANGED <<serverState, exitChild, writes, delivered, kills,
                                 alive, emitted>>
       /\ (exitpc = "sleep" /\ exitpc' # "sleep") =>
             /\ exitpc' = "kill"
             /\ UNCHANGED <<serverState, exitChild, writes, delivered, kills, alive>>
       /\ (exitpc = "kill" /\ exitpc' # "kill") =>
             /\ exitpc' = "done"
             /\ kills'[exitChild] = kills[exitChild] + 1
             /\ exitChild \notin alive'
             /\ UNCHANGED <<writes, delivered>>
       /\ exitpc \in {"sleep", "kill"} => (serverState = None /\ serverState' = None)
      ]_vars

\* C14 witness: the Exit arm has ended after a delivered sentinel and the
\* kill that follows it all the same
C14_Witness ==
    /\ exitpc = "done"
    /\ serverState = None
    /\ nSpawned = 1
    /\ writes[1] = 1 /\ delivered[1] = 1 /\ kills[1] = 1
    /\ alive = {}

\* C15: a worker's handle is taken at most once, by stop_server or by the
\* Exit arm: the sentinel is written to a worker at most once, the worker is
\* killed at most once, and while the Exit arm holds a handle the slot is
\* empty for stop_server.
C15_OneShutdownPerWorker ==
    /\ \A w \in Workers : writes[w] <= 1 /\ kills[w] <= 1
    /\ exitChild # None => serverState = None

\* C15 witness: stop_server has been invoked and waits while the Exit arm
\* holds the handle it took
C15_Witness ==
    /\ stpc["ui"] = "lock"
    /\ exitpc = "sleep"
    /\ exitChild = 1
    /\ writes[1] = 1

\* the event the monitor of worker w owes for the i-th line its worker wrote
Republished(w, i) ==
    Event(MonitorTask(w),
          IF printed[w][i].kind = "Stdout" THEN "server-log" ELSE "server-error",
          "", Utf8Lossy(printed[w][i].line), "")

\* the events the monitor of worker w owes for the first n lines
LinesRepublished(w, n) == [i \in 1..n |-> Republished(w, i)]

\* C16: the monitor of a worker republishes the worker's stdout lines on
\* server-log and its stderr lines on server-error, each once and in the
\* order they were written; it ends only after its worker has exited, having
\* republished every line and then exactly one server-terminated event, and
\* before it ends it has published no server-terminated event
C16_MonitorRepublishes ==
    \A w \in Workers :
        LET mine == ByTask(emitted, MonitorTask(w))
            term == Event(MonitorTask(w), "server-terminated", "", <<w>>, "")
        IN IF monitor[w] = "done"
           THEN /\ w \notin alive
                /\ mine = LinesRepublished(w, Len(printed[w])) \o <<term>>
           ELSE /\ Len(mine) <= Len(printed[w])
                /\ mine = LinesRepublished(w, Len(mine))

C16_Witness ==
    /\ monitor[1] = "done"
    /\ Len(printed[1]) = 2
    /\ printed[1][1].kind = "Stderr"
    /\ printed[1][2].kind = "Stdout"
    /\ Len(ByTask(emitted, MonitorTask(1))) = 3

\* C17 as stated: the slot is empty and unlocked (Stopped: server_status
\* answers false and start_server spawns afresh) only when every worker a
\* shutdown request was made to is confirmed terminated.
\* Violated: stop_server empties the slot when it takes the handle and
\* returns after writing the sentinel, while the worker is still alive.
C17_StoppedOnlyWhenTerminated ==
    (serverState = None /\ lock = "free") =>
        \A w \in Workers : writes[w] > 0 => w \notin alive

\* C18 as stated: the slot changes only from empty to held, in the store of a
\* start_server that spawned, and from held to empty, in a stop_server or in
\* the Exit arm, each time under the lock; every other step (server_status,
\* the monitor task, a worker that terminates) leaves it as it is.
\* Violated: the second of two racing start_server calls stores over a held
\* slot (held -> held), the race of C1.
C18_SlotChanges ==
    [][serverState' # serverState =>
          /\ lock = "free"
          /\ \/ /\ serverState = None
                /\ serverState' # None
                /\ \E p \in Starters : spc[p] = "store" /\ spc'[p] = "monitor"
             \/ /\ serverState # None
                /\ serverState' = None
                /\ \/ \E q \in Stoppers : StopStep(q)
                   \/ exitpc = "idle" /\ exitpc' = "sleep"]_vars

\* C19 as stated: when the Exit arm finishes, no worker spawned by
\* start_server is alive.
\* Violated: the Exit arm shuts down only the worker whose handle is in the
\* slot; a worker spawned but not yet stored, or one a stop_server took and
\* that ignores the sentinel, is alive when the arm finishes.
C19_NoWorkerAfterExit ==
    [][(exitpc # "done" /\ exitpc' = "done") => alive' = {}]_vars

\* C20 as stated: with start_server and stop_server called one after the
\* other, at most one worker process is alive at any time.
\* Violated: stop_server returns as soon as the sentinel is written; the next
\* start_server finds the slot empty and spawns while the stopped worker is
\* still alive.
C20_OneWorkerAlive ==
    Cardinality(alive) <= 1

====
